---- MODULE Spec2Model ----
(***************************************************************************)
(* CropLayer (src/caffe/layers/crop_layer.cpp): LayerSetUp, Reshape,       *)
(* crop_copy, Forward_cpu and Backward_cpu.                                *)
(*                                                                         *)
(* Dimension indices are 0-based as in the C++ code; TLA+ sequences are    *)
(* 1-based, so dimension i of a shape s is s[i + 1].  Buffers are          *)
(* sequences too: the element at linear offset k is buf[k + 1].            *)
(*                                                                         *)
(* A failed glog CHECK is modelled as the call returning an error with     *)
(* the object left as it is at the point where the CHECK fires.            *)
(***************************************************************************)
EXTENDS Integers, Sequences, FiniteSets, TLC

\* ------------------------------------------------------------------ bounds
MaxRank == 3
MaxDim == 2
MaxOff == 1
MaxCalls == 2
MaxDataDim == 3
MaxDataOff == 2
NumFills == 2

\* ---------------------------------------------------- program constants
\* LayerSetUp: CHECK_EQ(bottom.size(), 2)
NumBottoms == 2

VARIABLES
    pc,           \* "new" | "ready" | "setup_failed" | "shaped"
    axis,         \* crop_param().axis()
    offset,       \* crop_param().offset(): the configured offsets
    bottom0,      \* shape of bottom[0] at the last Reshape
    bottom1,      \* shape of bottom[1] at the last Reshape
    offsets,      \* the member CropLayer::offsets
    top_shape,    \* shape of top[0]
    result,       \* outcome of the last call
    bottom_data,  \* bottom[0]->cpu_data()
    top_data,     \* top[0]->cpu_data()
    top_diff,     \* top[0]->cpu_diff()
    bottom_diff,  \* bottom[0]->cpu_diff()
    ncopies,      \* caffe_copy calls issued by the last Forward/Backward
    calls         \* calls made since LayerSetUp (capped by MaxCalls)

vars == <<pc, axis, offset, bottom0, bottom1, offsets, top_shape, result,
          bottom_data, top_data, top_diff, bottom_diff, ncopies, calls>>

\* ------------------------------------------------------------ input sets
SeqsUpTo(S, n) == UNION {[1..k -> S] : k \in 0..n}

ShapesUpTo(d) == UNION {[1..k -> 1..d] : k \in 1..MaxRank}

\* Blob shapes of the Reshape sequences, and of the runs that move data.
Shapes == ShapesUpTo(MaxDim)

DataShapes == ShapesUpTo(MaxDataDim)

AxisValues == (-MaxRank)..(MaxRank - 1)

OffsetLists == SeqsUpTo(0..MaxOff, MaxRank)

DataOffsetLists == SeqsUpTo(0..MaxDataOff, MaxRank)

\* What an out-of-range read of the repeated uint32 field may return: any
\* unsigned value; one beyond every extent stands for the large ones.
Garbage == (0..MaxDataOff) \cup {MaxDataDim + MaxDataOff + 1}

\* ----------------------------------------------------------- Blob helpers
Zeros(n) == [k \in 1..n |-> 0]

RECURSIVE Count(_)
Count(shape) ==
    IF shape = <<>> THEN 1 ELSE Head(shape) * Count(Tail(shape))

AxisInRange(shape, a) == a >= -Len(shape) /\ a < Len(shape)

CanonicalAxisIndex(shape, a) == IF a < 0 THEN a + Len(shape) ELSE a

\* Blob::offset(indices): row-major; missing trailing indices count as 0.
RECURSIVE BlobOffsetFrom(_, _, _, _)
BlobOffsetFrom(shape, indices, i, acc) ==
    IF i >= Len(shape) THEN acc
    ELSE BlobOffsetFrom(shape, indices, i + 1,
            acc * shape[i + 1]
              + (IF Len(indices) > i THEN indices[i + 1] ELSE 0))

BlobOffset(shape, indices) == BlobOffsetFrom(shape, indices, 0, 0)

\* The CHECKs of Blob::offset.
BlobOffsetOk(shape, indices) ==
    /\ Len(indices) <= Len(shape)
    /\ \A i \in 0..(Len(indices) - 1) :
          indices[i + 1] >= 0 /\ indices[i + 1] < shape[i + 1]

\* ------------------------------------------------------------- LayerSetUp
SetUpOk(nb, b0) ==
    /\ nb = NumBottoms
    /\ AxisInRange(b0, axis)
    /\ CanonicalAxisIndex(b0, axis) < Len(b0)
    /\ (Len(offset) > 1 =>
          CanonicalAxisIndex(b0, axis) + Len(offset) = Len(b0))

NoResult == [op |-> "none", ok |-> TRUE, kind |-> "none", dim |-> -1]

LayerSetUp(nb, b0) ==
    /\ pc = "new"
    /\ pc' = IF SetUpOk(nb, b0) THEN "ready" ELSE "setup_failed"
    /\ result' = [op |-> "setup", ok |-> SetUpOk(nb, b0),
                  kind |-> IF SetUpOk(nb, b0) THEN "none" ELSE "setup",
                  dim |-> -1]
    /\ UNCHANGED <<axis, offset, bottom0, bottom1, offsets, top_shape,
                   bottom_data, top_data, top_diff, bottom_diff, ncopies,
                   calls>>

\* ---------------------------------------------------------------- Reshape
\* The read param.offset(i - start_axis) is out of the list's range.
OffsetReadOutOfRange(off, sa, i) ==
    i >= sa /\ Len(off) > 1 /\ i - sa >= Len(off)

\* Dimensions of a rank-n source whose offset read is out of range.
OutOfRangeDims(off, n, sa) ==
    {i \in 0..(n - 1) : OffsetReadOutOfRange(off, sa, i)}

\* CropOffset with the positional lookup stuck at the first offset.
CropOffsetFirst(off, sa, i, g) ==
    IF i < sa THEN 0
    ELSE IF Len(off) >= 1 THEN off[1]
    ELSE 0

\* crop_offset of iteration i; g[i] is what an out-of-range read returns.
CropOffset(off, sa, i, g) ==
    IF i < sa THEN 0
    ELSE IF Len(off) = 1 THEN off[1]
    ELSE IF Len(off) > 1
         THEN (IF OffsetReadOutOfRange(off, sa, i) THEN g[i]
               ELSE off[i - sa + 1])
    ELSE 0

\* NewSize with the axis itself left at the source extent.
NewSizeAfterAxis(b0, b1, sa, i) == IF i > sa THEN b1[i + 1] ELSE b0[i + 1]

\* new_size of iteration i.
NewSize(b0, b1, sa, i) == IF i >= sa THEN b1[i + 1] ELSE b0[i + 1]

\* FitOk with the offset left out of the comparison.
FitOkNoOffset(b0, b1, i, crop) == b0[i + 1] >= b1[i + 1]

\* CHECK_GE(bottom[0]->shape(i) - crop_offset, bottom[1]->shape(i))
FitOk(b0, b1, i, crop) == b0[i + 1] - crop >= b1[i + 1]

Failure(kind, i, offs, ns) ==
    [ok |-> FALSE, kind |-> kind, dim |-> i, offsets |-> offs, new_shape |-> ns]

\* The loop "apply crops" from iteration i on.  dc: the build checks the
\* index of a repeated-field read (a debug build) and aborts on a bad one.
RECURSIVE ReshapeLoop(_, _, _, _, _, _, _, _, _)
ReshapeLoop(off, b0, b1, sa, g, dc, i, offs, ns) ==
    IF i >= Len(b0)
    THEN [ok |-> TRUE, kind |-> "none", dim |-> -1,
          offsets |-> offs, new_shape |-> ns]
    ELSE IF i >= Len(b1)
    THEN Failure("reference_index", i, offs, ns)
    ELSE IF OffsetReadOutOfRange(off, sa, i) /\ dc
    THEN Failure("offset_index", i, offs, ns)
    ELSE IF ~FitOk(b0, b1, i, CropOffset(off, sa, i, g))
    THEN Failure("fit", i, offs, ns)
    ELSE ReshapeLoop(off, b0, b1, sa, g, dc, i + 1,
            [offs EXCEPT ![i + 1] = CropOffset(off, sa, i, g)],
            [ns EXCEPT ![i + 1] = NewSize(b0, b1, sa, i)])

\* The whole of Reshape up to (not including) top[0]->Reshape(new_shape),
\* for the configuration (ax, off) and the member value old.
ReshapeRun(ax, off, old, b0, b1, g, dc) ==
    IF ~AxisInRange(b0, ax)
    THEN Failure("axis", -1, old, b0)
    ELSE ReshapeLoop(off, b0, b1, CanonicalAxisIndex(b0, ax), g, dc, 0,
                     Zeros(Len(b0)), b0)

Reshape(b0, b1, g, dc) ==
    /\ pc \in {"ready", "shaped"}
    /\ calls < MaxCalls
    /\ \E r \in {ReshapeRun(axis, offset, offsets, b0, b1, g, dc)} :
         /\ offsets' = r.offsets
         /\ top_shape' = IF r.ok THEN r.new_shape ELSE top_shape
         /\ result' = [op |-> "reshape", ok |-> r.ok, kind |-> r.kind,
                       dim |-> r.dim]
    /\ pc' = "shaped"
    /\ calls' = calls + 1
    /\ bottom0' = b0
    /\ bottom1' = b1
    /\ bottom_data' = <<>>
    /\ top_data' = <<>>
    /\ top_diff' = <<>>
    /\ bottom_diff' = <<>>
    /\ ncopies' = 0
    /\ UNCHANGED <<axis, offset>>

\* The inputs of one Reshape call: the two shapes, and the outcome of every
\* out-of-range offset read the call makes (none in most calls).
ReshapeOver(S) ==
    \E b0 \in S, b1 \in S :
        LET oor == IF AxisInRange(b0, axis)
                   THEN OutOfRangeDims(offset, Len(b0),
                                       CanonicalAxisIndex(b0, axis))
                   ELSE {}
        IN IF oor = {}
           THEN Reshape(b0, b1, <<>>, FALSE)
           ELSE \E g \in [oor -> Garbage], dc \in BOOLEAN :
                    Reshape(b0, b1, g, dc)

\* Reshape, called again and again as the input shapes change.
ReshapeCall == ReshapeOver(Shapes)

\* The Reshape that follows LayerSetUp, on the blobs the data runs use.
FirstReshapeCall == pc = "ready" /\ ReshapeOver(DataShapes)

SetUpCall ==
    \E nb \in {NumBottoms - 1, NumBottoms, NumBottoms + 1}, b0 \in Shapes :
        LayerSetUp(nb, b0)

\* -------------------------------------------------------------- crop_copy
\* caffe_copy(N, X + xo, Y + yo) on the copier's state st: st.dest is Y,
\* st.n counts the caffe_copy calls.  A copy that leaves either buffer is
\* recorded in st.fault and moves nothing.
CaffeCopy(N, X, xo, st, yo) ==
    IF xo < 0 \/ yo < 0 \/ xo + N > Len(X) \/ yo + N > Len(st.dest)
    THEN [st EXCEPT !.fault = TRUE, !.n = @ + 1]
    ELSE [dest |-> [k \in 1..Len(st.dest) |->
                      IF k - 1 >= yo /\ k - 1 < yo + N
                      THEN X[xo + (k - 1 - yo) + 1]
                      ELSE st.dest[k]],
          n |-> st.n + 1,
          fault |-> st.fault]

\* ind_red: the indices of the dimensions before cur_dim.
IndRed(indices, cur_dim) == [j \in 1..cur_dim |-> indices[j]]

\* IndOff with the last dimension's offset left out.
IndOffNoLast(indices, offs, cur_dim) ==
    [j \in 1..(cur_dim + 1) |->
        IF j <= cur_dim THEN indices[j] + offs[j] ELSE 0]

\* ind_off: the same indices shifted by the offsets, then offsets[cur_dim].
IndOff(indices, offs, cur_dim) ==
    [j \in 1..(cur_dim + 1) |->
        IF j <= cur_dim THEN indices[j] + offs[j] ELSE offs[cur_dim + 1]]

\* One iteration of the loop over the last dimension: one bulk copy of
\* top[0]->shape(cur_dim) elements.
CopyRow(bshape, tshape, offs, indices, cur_dim, src, st, is_forward) ==
    IF st.fault THEN st
    ELSE IF ~BlobOffsetOk(bshape, IndOff(indices, offs, cur_dim))
            \/ ~BlobOffsetOk(tshape, IndRed(indices, cur_dim))
    THEN [st EXCEPT !.fault = TRUE]
    ELSE IF is_forward
    THEN CaffeCopy(tshape[cur_dim + 1], src,
                   BlobOffset(bshape, IndOff(indices, offs, cur_dim)),
                   st, BlobOffset(tshape, IndRed(indices, cur_dim)))
    ELSE CaffeCopy(tshape[cur_dim + 1], src,
                   BlobOffset(tshape, IndRed(indices, cur_dim)),
                   st, BlobOffset(bshape, IndOff(indices, offs, cur_dim)))

\* How many times the loop at the last dimension runs its body.
LastDimIterations(tshape, cur_dim) == tshape[cur_dim + 1]

RECURSIVE crop_copy(_, _, _, _, _, _, _, _)
RECURSIVE OuterLoop(_, _, _, _, _, _, _, _, _)
RECURSIVE InnerLoop(_, _, _, _, _, _, _, _, _)

\* for (i = 0; i < top[0]->shape(cur_dim); ++i) { indices[cur_dim] = i; recurse }
OuterLoop(bshape, tshape, offs, indices, cur_dim, src, st, is_forward, i) ==
    IF i >= tshape[cur_dim + 1] THEN st
    ELSE OuterLoop(bshape, tshape, offs, indices, cur_dim, src,
            crop_copy(bshape, tshape, offs,
                      [indices EXCEPT ![cur_dim + 1] = i], cur_dim + 1,
                      src, st, is_forward),
            is_forward, i + 1)

\* for (i = 0; i < top[0]->shape(cur_dim); ++i) { build indices; caffe_copy }
InnerLoop(bshape, tshape, offs, indices, cur_dim, src, st, is_forward, i) ==
    IF i >= LastDimIterations(tshape, cur_dim) THEN st
    ELSE InnerLoop(bshape, tshape, offs, indices, cur_dim, src,
            CopyRow(bshape, tshape, offs, indices, cur_dim, src, st, is_forward),
            is_forward, i + 1)

crop_copy(bshape, tshape, offs, indices, cur_dim, src, st, is_forward) ==
    IF cur_dim + 1 < Len(tshape)
    THEN OuterLoop(bshape, tshape, offs, indices, cur_dim, src, st, is_forward, 0)
    ELSE InnerLoop(bshape, tshape, offs, indices, cur_dim, src, st, is_forward, 0)

\* ------------------------------------------------------------ data inputs
\* Tensor contents: every element carries its own position, so that a copy
\* from the wrong place shows; f tells the fills apart.
Labelled(n, f) == [k \in 1..n |-> 10 * k + f]

\* Prior content of a buffer the layer is about to write: never a source
\* value, never 0.
Stale(n, f) == [k \in 1..n |-> -(10 * k + f)]

\* Forward and Backward run only on the shapes of a successful Reshape.
Shaped ==
    /\ pc = "shaped"
    /\ \/ result.op = "reshape" /\ result.ok
       \/ result.op \in {"forward", "backward"}

\* ------------------------------------------------------------ Forward_cpu
Forward(f) ==
    /\ Shaped
    /\ calls < MaxCalls
    /\ \E src \in {Labelled(Count(bottom0), f)} :
       \E st \in {crop_copy(bottom0, top_shape, offsets,
                            Zeros(Len(top_shape)), 0, src,
                            [dest |-> Stale(Count(top_shape), f), n |-> 0,
                             fault |-> FALSE],
                            TRUE)} :
         /\ bottom_data' = src
         /\ top_data' = st.dest
         /\ ncopies' = st.n
         /\ result' = [op |-> "forward", ok |-> ~st.fault,
                       kind |-> IF st.fault THEN "fault" ELSE "none",
                       dim |-> -1]
    /\ calls' = calls + 1
    /\ UNCHANGED <<pc, axis, offset, bottom0, bottom1, offsets, top_shape,
                   top_diff, bottom_diff>>

\* ----------------------------------------------------------- Backward_cpu
\* caffe_set(n, v, buf)
CaffeSet(n, v, buf) == [k \in 1..Len(buf) |-> IF k <= n THEN v ELSE buf[k]]

\* ZeroFill left out: the gradient buffer keeps what it held.
ZeroFillSkipped(b0, buf) == buf

\* caffe_set(bottom[0]->count(), 0, bottom_diff)
ZeroFill(b0, buf) == CaffeSet(Count(b0), 0, buf)

Backward(f, p, propagate_down) ==
    /\ Shaped
    /\ calls < MaxCalls
    /\ \E g \in {Labelled(Count(top_shape), f)} :
       \E st \in {IF propagate_down
                  THEN crop_copy(bottom0, top_shape, offsets,
                            Zeros(Len(top_shape)), 0, g,
                            [dest |-> ZeroFill(bottom0,
                                              Stale(Count(bottom0), p)),
                             n |-> 0, fault |-> FALSE],
                            FALSE)
                  ELSE [dest |-> Stale(Count(bottom0), p), n |-> 0,
                        fault |-> FALSE]} :
         /\ top_diff' = g
         /\ bottom_diff' = st.dest
         /\ ncopies' = st.n
         /\ result' = [op |-> "backward", ok |-> ~st.fault,
                       kind |-> IF st.fault THEN "fault"
                                ELSE IF propagate_down THEN "none"
                                ELSE "skipped",
                       dim |-> -1]
    /\ calls' = calls + 1
    /\ UNCHANGED <<pc, axis, offset, bottom0, bottom1, offsets, top_shape,
                   bottom_data, top_data>>

ForwardCall == \E f \in 1..NumFills : Forward(f)

BackwardCall ==
    \E f \in 1..NumFills, p \in 1..NumFills, propagate_down \in BOOLEAN :
        Backward(f, p, propagate_down)

\* ------------------------------------------------------------------- Init
InitWith(lists) ==
    /\ pc = "new"
    /\ axis \in AxisValues
    /\ offset \in lists
    /\ bottom0 = <<>>
    /\ bottom1 = <<>>
    /\ offsets = <<>>
    /\ top_shape = <<>>
    /\ result = NoResult
    /\ bottom_data = <<>>
    /\ top_data = <<>>
    /\ top_diff = <<>>
    /\ bottom_diff = <<>>
    /\ ncopies = 0
    /\ calls = 0

Init == InitWith(OffsetLists)

InitData == InitWith(DataOffsetLists)

\* LayerSetUp, then any sequence of Reshape calls.
Next == SetUpCall \/ ReshapeCall

Spec == Init /\ [][Next]_vars

\* LayerSetUp, Reshape, then Forward_cpu or Backward_cpu.
NextData == SetUpCall \/ FirstReshapeCall \/ ForwardCall \/ BackwardCall

SpecData == InitData /\ [][NextData]_vars

\* ============================================================ properties
\* The last call was a Reshape, and it succeeded.
ReshapeOk == result.op = "reshape" /\ result.ok

\* The configured axis resolved against the rank of the Reshape's source.
StartAxis == IF axis < 0 THEN axis + Len(bottom0) ELSE axis

\* The dimensions of the source, 0-based.
Dims == 0..(Len(bottom0) - 1)

\* The multi-indices of a tensor of the given shape (0-based entries).
MultiIndices(shape) ==
    {j \in [1..Len(shape) -> 0..(MaxDataDim - 1)] :
        \A d \in 1..Len(shape) : j[d] < shape[d]}

\* Stride of dimension d (1-based) of a row-major tensor.
RECURSIVE Stride(_, _)
Stride(shape, d) ==
    IF d >= Len(shape) THEN 1 ELSE shape[d + 1] * Stride(shape, d + 1)

RECURSIVE Dot(_, _, _)
Dot(shape, j, d) ==
    IF d > Len(shape) THEN 0 ELSE j[d] * Stride(shape, d) + Dot(shape, j, d + 1)

\* The element of a row-major buffer at multi-index j.
At(buf, shape, j) == buf[Dot(shape, j, 1) + 1]

\* The source index of output index j.
Shifted(j) == [d \in 1..Len(j) |-> j[d] + offsets[d]]

\* The window of the source that the crop reads.
InWindow(s) ==
    \A d \in 1..Len(s) : s[d] >= offsets[d] /\ s[d] < offsets[d] + top_shape[d]

\* The offset the configuration gives dimension i (0-based) of the source.
ConfiguredOffset(i) ==
    IF i < StartAxis \/ Len(offset) = 0 THEN 0
    ELSE IF Len(offset) = 1 THEN offset[1]
    ELSE offset[i - StartAxis + 1]

\* The spec's concrete scenario: source [1,3,5,5], reference [1,3,3,3],
\* axis = 2, offset = [1,1].
ScenarioSource == <<1, 3, 5, 5>>

ScenarioReshape ==
    ReshapeRun(2, <<1, 1>>, <<>>, ScenarioSource, <<1, 3, 3, 3>>, <<>>, FALSE)

ScenarioForward ==
    crop_copy(ScenarioSource, ScenarioReshape.new_shape,
              ScenarioReshape.offsets, Zeros(4), 0,
              Labelled(Count(ScenarioSource), 1),
              [dest |-> Stale(Count(ScenarioReshape.new_shape), 1), n |-> 0,
               fault |-> FALSE],
              TRUE)

ScenarioBackward ==
    crop_copy(ScenarioSource, ScenarioReshape.new_shape,
              ScenarioReshape.offsets, Zeros(4), 0,
              [k \in 1..Count(ScenarioReshape.new_shape) |-> 1],
              [dest |-> ZeroFill(ScenarioSource,
                                 Stale(Count(ScenarioSource), 1)),
               n |-> 0, fault |-> FALSE],
              FALSE)

\* Forward output equals source[:, :, 1:4, 1:4].
ScenarioForwardOk ==
    /\ ScenarioReshape.ok
    /\ ScenarioReshape.new_shape = <<1, 3, 3, 3>>
    /\ ~ScenarioForward.fault
    /\ \A c \in 0..2, y \in 0..2, x \in 0..2 :
          ScenarioForward.dest[c * 9 + y * 3 + x + 1]
            = Labelled(Count(ScenarioSource), 1)[c * 25 + (y + 1) * 5 + (x + 1) + 1]

\* Backward of all ones is 1 in the [1:4, 1:4] window, 0 elsewhere.
ScenarioBackwardOk ==
    /\ ~ScenarioBackward.fault
    /\ \A c \in 0..2, y \in 0..4, x \in 0..4 :
          ScenarioBackward.dest[c * 25 + y * 5 + x + 1]
            = IF y \in 1..3 /\ x \in 1..3 THEN 1 ELSE 0

\* The spec's error scenario: source and reference [2,10,10], axis = 1,
\* offset = [5]: the fit check fails in dimension 1.
ScenarioErrorOk ==
    \E r \in {ReshapeRun(1, <<5>>, <<>>, <<2, 10, 10>>, <<2, 10, 10>>,
                          <<>>, FALSE)} :
        ~r.ok /\ r.kind = "fit" /\ r.dim = 1

\* C1: after a successful Reshape, Forward writes every output element,
\* output[j] = source[j + offsets] for every output multi-index j, and with
\* all offsets 0 and reference shape = source shape the output is a copy of
\* the source (in the spec's scenario, the output is source[:, :, 1:4, 1:4]).
C1_ForwardIsWindowedRead ==
    result.op = "forward" =>
        /\ ScenarioForwardOk
        /\ result.ok
        /\ Len(top_data) = Count(top_shape)
        /\ Len(bottom_data) = Count(bottom0)
        /\ \A j \in MultiIndices(top_shape) :
              At(top_data, top_shape, j) = At(bottom_data, bottom0, Shifted(j))
        /\ \A k \in 1..Len(top_data) : top_data[k] > 0
        /\ ((\A d \in 1..Len(offsets) : offsets[d] = 0) /\ bottom1 = bottom0
              => top_data = bottom_data)

\* A rank-3 forward whose window is shifted in the last two dimensions and
\* holds more than one row of more than one element.
C1_Witness ==
    /\ result.op = "forward"
    /\ Len(bottom0) = MaxRank
    /\ offsets[MaxRank] > 0 /\ offsets[MaxRank - 1] > 0
    /\ top_shape[MaxRank] > 1 /\ top_shape[MaxRank - 1] > 1
    /\ top_shape[MaxRank] < bottom0[MaxRank]

\* C2: after a successful Reshape, Backward with propagate_down leaves the
\* source gradient equal to g[j] at source index j + offsets and equal to 0
\* at every source index outside the window, whatever the buffer held (in
\* the spec's scenario, all ones give 1 in the [1:4, 1:4] window, 0 elsewhere).
C2_BackwardIsAdjoint ==
    (result.op = "backward" /\ result.kind # "skipped") =>
        /\ ScenarioBackwardOk
        /\ result.ok
        /\ Len(bottom_diff) = Count(bottom0)
        /\ \A j \in MultiIndices(top_shape) :
              At(bottom_diff, bottom0, Shifted(j)) = At(top_diff, top_shape, j)
        /\ \A s \in MultiIndices(bottom0) :
              ~InWindow(s) => At(bottom_diff, bottom0, s) = 0

\* A rank-3 backward that scatters into a window strictly inside the last
\* two dimensions of the source.
C2_Witness ==
    /\ result.op = "backward" /\ result.kind = "none"
    /\ Len(bottom0) = MaxRank
    /\ offsets[MaxRank] > 0 /\ offsets[MaxRank - 1] > 0
    /\ top_shape[MaxRank] > 1
    /\ Count(top_shape) < Count(bottom0)

\* C3: after every successful Reshape the output shape has the source's
\* rank, equals the reference shape in every dimension >= axis and the
\* source shape in every dimension < axis.
C3_OutputShape ==
    ReshapeOk =>
        /\ Len(top_shape) = Len(bottom0)
        /\ StartAxis \in Dims
        /\ \A i \in Dims :
              top_shape[i + 1] = IF i >= StartAxis THEN bottom1[i + 1]
                                 ELSE bottom0[i + 1]

\* A successful Reshape with a negative axis that crops the dimension at the
\* axis and keeps a larger source extent before it.
C3_Witness ==
    /\ ReshapeOk
    /\ axis < 0
    /\ StartAxis > 0
    /\ bottom1[StartAxis + 1] < bottom0[StartAxis + 1]
    /\ bottom1[StartAxis] < bottom0[StartAxis]

C5_ReplaceOnSuccess ==
    [][(ReshapeOk /\ result'.op = "reshape" /\ ~result'.ok)
          => (offsets' = offsets /\ top_shape' = top_shape)]_vars

\* C6: after a successful Reshape offsets[i] = 0 for i < axis; for i >= axis
\* it is 0 with no configured offset, the scalar with one, offset[i - axis]
\* with rank - axis of them; one offset k gives the offsets and output shape
\* of the explicit list of rank - axis copies of k.
C6_OffsetResolution ==
    ReshapeOk =>
        /\ Len(offsets) = Len(bottom0)
        /\ \A i \in Dims :
              /\ i < StartAxis => offsets[i + 1] = 0
              /\ (i >= StartAxis /\ Len(offset) = 0) => offsets[i + 1] = 0
              /\ (i >= StartAxis /\ Len(offset) = 1) => offsets[i + 1] = offset[1]
              /\ (i >= StartAxis /\ Len(offset) = Len(bottom0) - StartAxis)
                    => offsets[i + 1] = offset[i - StartAxis + 1]
        /\ Len(offset) = 1 =>
              \E r \in {ReshapeRun(axis,
                                   [n \in 1..(Len(bottom0) - StartAxis) |-> offset[1]],
                                   <<>>, bottom0, bottom1, <<>>, FALSE)} :
                  r.ok /\ r.offsets = offsets /\ r.new_shape = top_shape

\* A successful Reshape of a rank-3 source with axis 1 and two different
\* positional offsets.
C6_Witness ==
    /\ ReshapeOk
    /\ Len(bottom0) = MaxRank /\ StartAxis = 1
    /\ Len(offset) = MaxRank - 1
    /\ offset[1] # offset[2]

\* A successful Reshape of a rank-3 source with axis 1 and one offset k > 0.
C6_BroadcastWitness ==
    /\ ReshapeOk
    /\ Len(bottom0) = MaxRank /\ StartAxis = 1
    /\ Len(offset) = 1 /\ offset[1] > 0

\* C7: after every successful Reshape rank(source) = rank(reference).
C7_EqualRanks == ReshapeOk => Len(bottom0) = Len(bottom1)

\* C8: every Reshape that succeeds has 0, 1 or exactly rank - axis
\* configured offsets, rank and axis being those of that Reshape's source.
C8_OffsetCount ==
    ReshapeOk => Len(offset) \in {0, 1, Len(bottom0) - StartAxis}

\* C9: one Forward (or Backward with propagate_down) issues exactly
\* (product of the output shape) / (last output extent) bulk copies.
C9_BulkCopies ==
    (result.op \in {"forward", "backward"} /\ result.kind = "none") =>
        ncopies * top_shape[Len(top_shape)] = Count(top_shape)

\* C10: with equal ranks, a valid axis and a valid offset count, a window
\* that fits in every dimension >= axis makes Reshape succeed with the
\* source extents before axis, whatever the reference extents there.
C10_NoConstraintBeforeAxis ==
    (/\ result.op = "reshape"
     /\ Len(bottom0) = Len(bottom1)
     /\ StartAxis \in Dims
     /\ Len(offset) \in {0, 1, Len(bottom0) - StartAxis}
     /\ \A i \in Dims :
           i >= StartAxis
             => bottom0[i + 1] - ConfiguredOffset(i) >= bottom1[i + 1])
      => /\ result.ok
         /\ \A i \in Dims : i < StartAxis => top_shape[i + 1] = bottom0[i + 1]

====
